---- MODULE Spec2Model ----
(***************************************************************************)
(* The S3 synchronizer report generator of weewx-R2: S3Generator.run (the  *)
(* trigger, on the report engine's thread) and S3SyncThread.run (the       *)
(* runner, on its own thread), in the two files the repository carries:    *)
(* bin/user/s3.py (the one install.py installs) and bin/user/S3.py.        *)
(*                                                                         *)
(* The records S3.py logs differ from those of s3.py in level and in the    *)
(* "s3generator: " prefix of their text; where the two files log the same  *)
(* message the record carries the text of s3.py.                           *)
(*                                                                         *)
(* Text is modelled as a sequence of tokens.  A token is a piece of text   *)
(* the code's patterns can tell apart: the literals the code searches for, *)
(* digits, a blank, a line break, and "x" for any other text.              *)
(***************************************************************************)
EXTENDS Integers, Sequences, FiniteSets, TLC

\* ------------------------------------------------------------------ bounds
MaxRuns == 2
MaxLines == 3
MaxDigits == 1

\* ------------------------------------------------------------------ text
NL == "\n"
SP == " "
Whitespace == {SP, NL}
Digits == {"0", "5"}

\* b'Done. Uploaded ' (s3.py:151,156), as the tokens "Done. " and "Uploaded "
DoneMarker == <<"Done. ", "Uploaded ">>
\* b'upload:' (s3.py:154)
UploadMarker == <<"upload:">>

\* str.find(pat) >= 0
Contains(s, pat) ==
    \E i \in 1..(Len(s) - Len(pat) + 1) : SubSeq(s, i, i + Len(pat) - 1) = pat

\* What strip() leaves of the first token of a text: a leading blank goes.
TrimLeft(t) == IF t = " bytes" THEN "bytes" ELSE t
\* What strip() leaves of the last token of a text: a trailing blank goes.
TrimRight(t) ==
    IF t = "Done. " THEN "Done."
    ELSE IF t = "Uploaded " THEN "Uploaded"
    ELSE t

RECURSIVE LStrip(_)
LStrip(s) ==
    IF s = <<>> THEN <<>>
    ELSE IF Head(s) \in Whitespace THEN LStrip(Tail(s))
    ELSE <<TrimLeft(Head(s))>> \o Tail(s)

RECURSIVE RStrip(_)
RStrip(s) ==
    IF s = <<>> THEN <<>>
    ELSE IF s[Len(s)] \in Whitespace THEN RStrip(SubSeq(s, 1, Len(s) - 1))
    ELSE SubSeq(s, 1, Len(s) - 1) \o <<TrimRight(s[Len(s)])>>

\* stdout.strip()
Strip(s) == RStrip(LStrip(s))

\* The position of the first line break of s, 0 when it has none.
FirstNL(s) ==
    IF \E i \in 1..Len(s) : s[i] = NL
    THEN CHOOSE i \in 1..Len(s) : s[i] = NL /\ \A j \in 1..(i - 1) : s[j] # NL
    ELSE 0

\* str.splitlines(): no line for an empty text, none after a final line break.
RECURSIVE SplitLines(_)
SplitLines(s) ==
    IF s = <<>> THEN <<>>
    ELSE LET i == FirstNL(s)
         IN IF i = 0 THEN <<s>>
            ELSE <<SubSeq(s, 1, i - 1)>> \o SplitLines(SubSeq(s, i + 1, Len(s)))

\* The last position of the run of digits that starts right after position i.
RECURSIVE DigitRunEnd(_, _)
DigitRunEnd(line, i) ==
    IF i + 1 <= Len(line) /\ line[i + 1] \in Digits
    THEN DigitRunEnd(line, i + 1)
    ELSE i

\* Whether "Uploaded (\d*) bytes" matches at position i of the line.
MatchesAt(line, i) ==
    /\ line[i] = "Uploaded "
    /\ LET j == DigitRunEnd(line, i)
       IN j + 1 <= Len(line) /\ line[j + 1] = " bytes"

\* re.search(b"Uploaded (\d*) bytes", line): the leftmost match and its group 1.
ReSearch(line) ==
    IF \E i \in 1..Len(line) : MatchesAt(line, i)
    THEN LET i == CHOOSE k \in 1..Len(line) :
                      MatchesAt(line, k) /\ \A j \in 1..(k - 1) : ~MatchesAt(line, j)
         IN [matched |-> TRUE, group |-> SubSeq(line, i + 1, DigitRunEnd(line, i))]
    ELSE [matched |-> FALSE, group |-> <<>>]

DigitValue(d) == IF d = "0" THEN 0 ELSE 5

\* int(m.group(1)) for a non-empty string of digits
RECURSIVE IntOf(_)
IntOf(ds) ==
    IF ds = <<>> THEN 0
    ELSE 10 * IntOf(SubSeq(ds, 1, Len(ds) - 1)) + DigitValue(ds[Len(ds)])

\* ------------------------------------------------------------------ log sink
\* A record of the log sink.  text holds what the message interpolates; files
\* and bytes hold the counts of a final message, NoCount when it has none.
NoCount == -1
\* byte_cnt = "Unknown" (s3.py:162)
UnknownBytes == -2
\* A local the code has not assigned yet.
Unbound == -3

Rec(level, msg, text) ==
    [level |-> level, msg |-> msg, text |-> text, files |-> NoCount, bytes |-> NoCount]

\* ------------------------------------------------------------------ parsing
\* Mutant: "upload" is looked for whatever its case, so that a line holding
\* "Uploaded " counts as a file.
ScanLineAnyCase(line, acc) ==
    LET fc == IF Contains(line, UploadMarker) \/ Contains(line, <<"Uploaded ">>)
              THEN acc.file_cnt + 1 ELSE acc.file_cnt
    IN IF Contains(line, DoneMarker)
       THEN LET m == ReSearch(line)
            IN IF m.matched
               THEN IF m.group = <<>>
                    THEN [file_cnt |-> fc, byte_cnt |-> acc.byte_cnt, exc |-> "ValueError"]
                    ELSE [file_cnt |-> fc, byte_cnt |-> IntOf(m.group), exc |-> "none"]
               ELSE [file_cnt |-> fc, byte_cnt |-> UnknownBytes, exc |-> "none"]
       ELSE [file_cnt |-> fc, byte_cnt |-> acc.byte_cnt, exc |-> "none"]

\* Mutant: only the first line that holds the marker sets byte_cnt.
ScanLineFirstWins(line, acc) ==
    LET fc == IF Contains(line, UploadMarker) THEN acc.file_cnt + 1 ELSE acc.file_cnt
    IN IF Contains(line, DoneMarker) /\ acc.byte_cnt = Unbound
       THEN LET m == ReSearch(line)
            IN IF m.matched
               THEN IF m.group = <<>>
                    THEN [file_cnt |-> fc, byte_cnt |-> acc.byte_cnt, exc |-> "ValueError"]
                    ELSE [file_cnt |-> fc, byte_cnt |-> IntOf(m.group), exc |-> "none"]
               ELSE [file_cnt |-> fc, byte_cnt |-> UnknownBytes, exc |-> "none"]
       ELSE [file_cnt |-> fc, byte_cnt |-> acc.byte_cnt, exc |-> "none"]

\* One turn of the loop over the lines (s3.py:153-162).
ScanLine(line, acc) ==
    LET fc == IF Contains(line, UploadMarker) THEN acc.file_cnt + 1 ELSE acc.file_cnt
    IN IF Contains(line, DoneMarker)
       THEN LET m == ReSearch(line)
            IN IF m.matched
               THEN IF m.group = <<>>
                    THEN [file_cnt |-> fc, byte_cnt |-> acc.byte_cnt, exc |-> "ValueError"]
                    ELSE [file_cnt |-> fc, byte_cnt |-> IntOf(m.group), exc |-> "none"]
               ELSE [file_cnt |-> fc, byte_cnt |-> UnknownBytes, exc |-> "none"]
       ELSE [file_cnt |-> fc, byte_cnt |-> acc.byte_cnt, exc |-> "none"]

\* The loop: it stops at the first line that raises.
RECURSIVE ScanLines(_, _)
ScanLines(lines, acc) ==
    IF lines = <<>> \/ acc.exc # "none" THEN acc
    ELSE ScanLines(Tail(lines), ScanLine(Head(lines), acc))

\* "Format message" (s3.py:165-171): reading an unassigned byte_cnt raises inside
\* the try and the bare except takes the elapsed-only message.
SyncedMsg(v) ==
    IF v = "s3" THEN "Synced %d files (%s bytes) in %%0.2f seconds"
    ELSE "sync'd %d files (%s bytes) in %%0.2f seconds"
ExecutedMsg(v) ==
    IF v = "s3" THEN "Executed in %0.2f seconds" ELSE "executed in %0.2f seconds"
ErrorsMsg(v) ==
    IF v = "s3" THEN "Executed with errors in %0.2f seconds"
    ELSE "executed in %0.2f seconds"

FormatMessage(v, acc) ==
    IF acc.byte_cnt = Unbound
    THEN Rec("info", ExecutedMsg(v), <<>>)
    ELSE [level |-> "info", msg |-> SyncedMsg(v), text |-> <<>>,
          files |-> acc.file_cnt, bytes |-> acc.byte_cnt]

\* The text of a line of the error dump (s3.py:176).
ErrorLineMsg == "S3cmd error: %s"

\* Mutant: the lines of the dump go to the debug level.
ErrorDumpAtDebug(v, lines) ==
    <<Rec("error", "S3cmd reported errors", <<>>)>>
    \o [i \in 1..Len(lines) |-> Rec("debug", ErrorLineMsg, lines[i])]

\* The error dump of a run whose output has no marker (s3.py:174-176).
ErrorDump(v, lines) ==
    <<Rec("error", "S3cmd reported errors", <<>>)>>
    \o [i \in 1..Len(lines) |-> Rec("error", ErrorLineMsg, lines[i])]

\* The debug dump of the output (s3.py:146-148; S3.py:119-122 under weewx.debug == 1).
DebugDump(v, dbg, stroutput) ==
    IF v = "s3" \/ dbg = 1
    THEN LET m == IF v = "s3" THEN "S3cmd output: %s" ELSE "s3generator: s3cmd output: %s"
             lines == SplitLines(stroutput)
         IN <<Rec("debug", m, stroutput)>>
            \o [i \in 1..Len(lines) |-> Rec("debug", m, lines[i])]
    ELSE <<>>

\* "S3 output: Generate an appropriate message" (s3.py:151-177): the class of
\* the run, the records it logs on the way, its final message, what it raises.
Classify(v, stroutput) ==
    IF Contains(stroutput, DoneMarker)
    THEN LET acc == ScanLines(SplitLines(stroutput),
                              [file_cnt |-> 0, byte_cnt |-> Unbound, exc |-> "none"])
         IN [status |-> "Success", exc |-> acc.exc, logged |-> <<>>,
             message |-> FormatMessage(v, acc)]
    ELSE [status |-> "ErrorsReported", exc |-> "none",
          logged |-> ErrorDump(v, SplitLines(stroutput)),
          message |-> Rec("info", ErrorsMsg(v), <<>>)]

\* Mutant: S3.py logs its two closing records whatever log_success is.
FinalReportAlways(v, log_success, message) ==
    IF v = "s3"
    THEN <<message, Rec("debug", "Sync ended at %s", <<>>)>>
    ELSE <<message, Rec("info", "s3generator: sync ended at %s", <<>>)>>

\* The two closing records (s3.py:179-182; S3.py:153-156, under log_success).
FinalReport(v, log_success, message) ==
    IF v = "s3"
    THEN <<message, Rec("debug", "Sync ended at %s", <<>>)>>
    ELSE IF log_success
         THEN <<message, Rec("info", "s3generator: sync ended at %s", <<>>)>>
         ELSE <<>>

\* ------------------------------------------------------------------ configuration
\* The values weewx.conf gives the keys the generator reads.
SkinValue ==
    [HTML_ROOT |-> <<"/", "var", "/", "www">>, access_key |-> <<"AK">>,
     secret_token |-> <<"ST">>, bucket |-> <<"bkt">>]
SkinKeys == {"HTML_ROOT", "access_key", "secret_token", "bucket"}
LogSuccessValues == {<<"true">>, <<"false">>}
StdReportValue == [HTML_ROOT |-> <<"public_html">>]
WeewxRootValue == <<"/", "home", "/", "weewx">>

\* Every skin dictionary: any of the keys may be absent.
SkinDicts(v) ==
    LET base == {[k \in D |-> SkinValue[k]] : D \in SUBSET SkinKeys}
    IN IF v = "s3" THEN base
       ELSE base \cup {d @@ ("log_success" :> b) : d \in base, b \in LogSuccessValues}

\* Every configuration dictionary: the StdReport section is there (the report
\* engine runs from it), its HTML_ROOT and WEEWX_ROOT may be absent.
ConfigDicts ==
    {[k \in D |-> IF k = "WEEWX_ROOT" THEN WeewxRootValue
                  ELSE [h \in H |-> StdReportValue[h]]] :
        D \in {{"StdReport"}, {"StdReport", "WEEWX_ROOT"}},
        H \in SUBSET {"HTML_ROOT"}}

\* weeutil.to_bool(self.skin_dict.get('log_success', True)) (S3.py:49)
LogSuccess(skin) ==
    IF "log_success" \in DOMAIN skin THEN skin["log_success"] = <<"true">> ELSE TRUE

\* os.path.join(a, b) of posixpath
OsPathJoin(a, b) ==
    IF b # <<>> /\ Head(b) = "/" THEN b
    ELSE IF a = <<>> \/ a[Len(a)] = "/" THEN a \o b
    ELSE a \o <<"/">> \o b

NoLocals == [k \in {} |-> <<>>]

\* Mutant: the StdReport HTML_ROOT is taken whenever it is there, the skin's
\* only otherwise.
ResolveFromDefaultFirst(skin, conf, bound) ==
    IF "HTML_ROOT" \notin DOMAIN skin /\ "HTML_ROOT" \notin DOMAIN conf["StdReport"]
    THEN [err |-> "HTML_ROOT", locals |-> bound]
    ELSE LET html_root == IF "HTML_ROOT" \in DOMAIN conf["StdReport"]
                          THEN conf["StdReport"]["HTML_ROOT"]
                          ELSE skin["HTML_ROOT"]
             l1 == ("html_root" :> html_root) @@ bound
         IN IF "WEEWX_ROOT" \notin DOMAIN conf
            THEN [err |-> "WEEWX_ROOT", locals |-> l1]
            ELSE LET l2 == ("local_root" :>
                               OsPathJoin(conf["WEEWX_ROOT"], html_root) \o <<"/">>) @@ l1
                 IN IF "access_key" \notin DOMAIN skin
                    THEN [err |-> "access_key", locals |-> l2]
                    ELSE LET l3 == ("access_key" :> skin["access_key"]) @@ l2
                         IN IF "secret_token" \notin DOMAIN skin
                            THEN [err |-> "secret_token", locals |-> l3]
                            ELSE LET l4 == ("secret_token" :> skin["secret_token"]) @@ l3
                                 IN IF "bucket" \notin DOMAIN skin
                                    THEN [err |-> "bucket", locals |-> l4]
                                    ELSE [err |-> "none",
                                          locals |-> ("remote_bucket" :> skin["bucket"]) @@ l4]

\* The try block of S3Generator.run (s3.py:82-92) entered with the locals
\* `bound`: the locals bound when it ends, and the key whose lookup raised
\* KeyError ("none" when none did).
ResolveFrom(skin, conf, bound) ==
    IF "HTML_ROOT" \notin DOMAIN skin /\ "HTML_ROOT" \notin DOMAIN conf["StdReport"]
    THEN [err |-> "HTML_ROOT", locals |-> bound]
    ELSE LET html_root == IF "HTML_ROOT" \in DOMAIN skin THEN skin["HTML_ROOT"]
                          ELSE conf["StdReport"]["HTML_ROOT"]
             l1 == ("html_root" :> html_root) @@ bound
         IN IF "WEEWX_ROOT" \notin DOMAIN conf
            THEN [err |-> "WEEWX_ROOT", locals |-> l1]
            ELSE LET l2 == ("local_root" :>
                               OsPathJoin(conf["WEEWX_ROOT"], html_root) \o <<"/">>) @@ l1
                 IN IF "access_key" \notin DOMAIN skin
                    THEN [err |-> "access_key", locals |-> l2]
                    ELSE LET l3 == ("access_key" :> skin["access_key"]) @@ l2
                         IN IF "secret_token" \notin DOMAIN skin
                            THEN [err |-> "secret_token", locals |-> l3]
                            ELSE LET l4 == ("secret_token" :> skin["secret_token"]) @@ l3
                                 IN IF "bucket" \notin DOMAIN skin
                                    THEN [err |-> "bucket", locals |-> l4]
                                    ELSE [err |-> "none",
                                          locals |-> ("remote_bucket" :> skin["bucket"]) @@ l4]

\* The names the call S3SyncThread(...) reads (s3.py:103).
ThreadArgs == {"access_key", "secret_token", "local_root", "remote_bucket"}

\* Mutant: the four locals are given empty defaults before the try statement.
ResolveWithDefaults(skin, conf) ==
    ResolveFrom(skin, conf, [k \in ThreadArgs |-> <<>>])

\* S3Generator.run binds no local before its try statement (s3.py:79-82).
Resolve(skin, conf) ==
    ResolveFrom(skin, conf, NoLocals)

\* The level of the trigger's "configuration failed" record (s3.py:97 loginf,
\* S3.py:70 LOG_ERR).
ConfigFailedLevel(v) == IF v = "s3" THEN "info" ELSE "error"

\* The text of the "configuration failed" record (s3.py:97).
ConfigFailedMsg == "Configuration failed - caught exception %s"

\* What S3Generator.run logs up to the end of its try statement.
ResolveLog(v, skin, res) ==
    IF v = "s3"
    THEN <<Rec("debug", "Reading properties from the configuration dictionary", <<>>)>>
         \o IF res.err = "none"
            THEN <<Rec("debug", "Successfully configured sync from local folder '%s' to remote bucket '%s'",
                       res.locals["local_root"] \o res.locals["remote_bucket"])>>
            ELSE <<Rec(ConfigFailedLevel(v), ConfigFailedMsg, <<res.err>>)>>
    ELSE (IF LogSuccess(skin) THEN <<Rec("info", "reportengine: S3Generator", <<>>)>> ELSE <<>>)
         \o IF res.err = "none"
            THEN IF LogSuccess(skin)
                 THEN <<Rec("info", "s3generator: successfully configured sync from local folder '%s' to remote bucket '%s'",
                            res.locals["local_root"] \o res.locals["remote_bucket"])>>
                 ELSE <<>>
            ELSE <<Rec(ConfigFailedLevel(v), ConfigFailedMsg, <<res.err>>)>>

\* How the except KeyError clause ends (s3.py:98 exit(1); S3.py falls through).
AfterKeyError(v) == IF v = "s3" THEN "SystemExit" ELSE "none"

\* S3SyncThread.__init__ (s3.py:110-117; S3.py:81-89)
NewThread(v, skin, locals) ==
    LET t == [k \in ThreadArgs |-> locals[k]]
    IN IF v = "s3" THEN t ELSE t @@ ("log_success" :> LogSuccess(skin))
NoThread == [none |-> TRUE]

\* The command line (s3.py:125-132; S3.py:98-105)
BuildCmd(v, t) ==
    <<IF v = "s3" THEN "s3cmd" ELSE "/usr/local/bin/s3cmd", "sync", "--access_key=">>
    \o t["access_key"] \o <<"--secret_key=">> \o t["secret_token"]
    \o <<"--no-mime-magic",
         IF v = "s3" THEN "--storage-class=STANDARD"
         ELSE "--storage-class=REDUCED_REDUNDANCY">>
    \o t["local_root"] \o <<"s3://">> \o t["remote_bucket"]

\* What the "Executing command" record interpolates (s3.py:134).
ExecutingText(v, t) == BuildCmd(v, t)

\* What S3SyncThread.run logs before it launches the tool (s3.py:122,134).
StartLog(v, t) ==
    (IF v = "s3" THEN <<Rec("debug", "Sync started at %s", <<>>)>>
     ELSE IF t["log_success"]
          THEN <<Rec("info", "s3generator: sync started at %s", <<>>)>>
          ELSE <<>>)
    \o <<Rec("debug", IF v = "s3" THEN "Executing command: %s"
                      ELSE "s3generator: executing command: %s", ExecutingText(v, t))>>

\* The errors Popen may raise, by errno.
LaunchErrnos == {"ENOENT", "EACCES"}

\* The level of the "not installed" record (s3.py:143 loginf, S3.py:116 LOG_ERR).
NotInstalledLevel(v) == IF v = "s3" THEN "info" ELSE "error"

\* The text of the "not installed" record (s3.py:143).
NotInstalledMsg == "S3cmd does not appear to be installed on this system (errno %d, \"%s\")"

\* The except OSError clause (s3.py:141-144; S3.py:114-117): what it logs and
\* what leaves the try statement.  In s3.py an errno other than ENOENT leaves
\* nothing, and the next statement reads stroutput, which is unassigned.
OnOSError(v, e) ==
    IF e = "ENOENT"
    THEN [logged |-> <<Rec(NotInstalledLevel(v), NotInstalledMsg, <<e>>)>>,
          exc |-> IF v = "s3" THEN "SystemExit" ELSE "OSError"]
    ELSE [logged |-> <<>>,
          exc |-> IF v = "s3" THEN "UnboundLocalError" ELSE "OSError"]

\* ------------------------------------------------------------------ inputs
\* What the tool may print in the system specification: error lines after an
\* empty line; two uploads and the closing line; a closing line without a byte
\* count; a closing line with no digits.
ToolOutputs ==
    { <<NL, "x", NL, "x", NL>>,
      <<"upload:", "x", NL, "upload:", "x", NL,
        "Done. ", "Uploaded ", "5", "0", " bytes", "x", NL>>,
      <<"Done. ", "Uploaded ", "x", NL>>,
      <<"Done. ", "Uploaded ", " bytes", NL>> }
ExitCodes == {0, 1}

\* ------------------------------------------------------------------ state
Runs == 1..MaxRuns

VARIABLES
    variant,      \* which file is installed: "s3" (s3.py) or "S3" (S3.py)
    skin_dict,    \* self.skin_dict
    config_dict,  \* self.config_dict
    weewx_debug,  \* weewx.debug
    tpc,          \* S3Generator.run of each cycle: idle, started, returned, raised
    texc,         \* what left S3Generator.run, "none" when it returned or runs
    thread,       \* the S3SyncThread each cycle constructed, NoThread when none
    rpc,          \* S3SyncThread.run: unstarted, dispatched, invoking, executing,
                  \* completed, returned, raised
    rexc,         \* what left S3SyncThread.run
    status,       \* the class of the run: none, LaunchFailure, Success, ErrorsReported
    spawned,      \* how many processes each run has launched
    errno,        \* the errno of the OSError Popen raised, "none" when it raised none
    stdout,       \* what communicate() returned
    exitcode,     \* the exit status of the process
    log           \* the records each cycle gave the log sink, in order

vars == <<variant, skin_dict, config_dict, weewx_debug, tpc, texc, thread, rpc,
          rexc, status, spawned, errno, stdout, exitcode, log>>
conf_vars == <<variant, skin_dict, config_dict, weewx_debug>>
runner_vars == <<rpc, rexc, status, spawned, errno, stdout, exitcode>>

Quiet ==
    /\ tpc = [r \in Runs |-> "idle"]
    /\ texc = [r \in Runs |-> "none"]
    /\ thread = [r \in Runs |-> NoThread]
    /\ rpc = [r \in Runs |-> "unstarted"]
    /\ rexc = [r \in Runs |-> "none"]
    /\ status = [r \in Runs |-> "none"]
    /\ spawned = [r \in Runs |-> 0]
    /\ errno = [r \in Runs |-> "none"]
    /\ stdout = [r \in Runs |-> <<>>]
    /\ exitcode = [r \in Runs |-> 0]
    /\ log = [r \in Runs |-> <<>>]

Init ==
    /\ variant \in {"s3", "S3"}
    /\ skin_dict \in SkinDicts(variant)
    /\ config_dict \in ConfigDicts
    /\ weewx_debug \in (IF variant = "s3" THEN {0} ELSE {0, 1})
    /\ Quiet

\* ------------------------------------------------------------------ trigger
LaunchRec(v) ==
    Rec("debug", IF v = "s3" THEN "Launch separate thread to handle sync"
                 ELSE "s3generator: launch separate thread to handle sync", <<>>)

\* S3Generator.run up to and including thread.start() (s3.py:79-104).  The
\* report engine calls it once a cycle, one cycle after the other.
S3Generator_run(r) ==
    /\ tpc[r] = "idle"
    /\ IF r = 1 THEN TRUE ELSE tpc[r - 1] \in {"returned", "raised"}
    /\ LET res == Resolve(skin_dict, config_dict)
           lg == ResolveLog(variant, skin_dict, res)
           after == IF res.err = "none" THEN "none" ELSE AfterKeyError(variant)
       IN IF after # "none"
          THEN /\ tpc' = [tpc EXCEPT ![r] = "raised"]
               /\ texc' = [texc EXCEPT ![r] = after]
               /\ log' = [log EXCEPT ![r] = @ \o lg]
               /\ UNCHANGED <<thread, rpc>>
          ELSE IF ThreadArgs \subseteq DOMAIN res.locals
          THEN /\ thread' = [thread EXCEPT ![r] = NewThread(variant, skin_dict, res.locals)]
               /\ rpc' = [rpc EXCEPT ![r] = "dispatched"]
               /\ tpc' = [tpc EXCEPT ![r] = "started"]
               /\ log' = [log EXCEPT ![r] = @ \o lg \o <<LaunchRec(variant)>>]
               /\ UNCHANGED texc
          ELSE /\ tpc' = [tpc EXCEPT ![r] = "raised"]
               /\ texc' = [texc EXCEPT ![r] = "UnboundLocalError"]
               /\ log' = [log EXCEPT ![r] = @ \o lg \o <<LaunchRec(variant)>>]
               /\ UNCHANGED <<thread, rpc>>
    /\ UNCHANGED <<conf_vars, rexc, status, spawned, errno, stdout, exitcode>>

\* Mutant: the trigger joins the thread before it returns.
TriggerReturnAfterJoin(r) ==
    /\ tpc[r] = "started"
    /\ rpc[r] \in {"returned", "raised"}
    /\ tpc' = [tpc EXCEPT ![r] = "returned"]
    /\ UNCHANGED <<conf_vars, texc, thread, runner_vars, log>>

\* S3Generator.run returns once the thread is started (s3.py:104).
TriggerReturn(r) ==
    /\ tpc[r] = "started"
    /\ tpc' = [tpc EXCEPT ![r] = "returned"]
    /\ UNCHANGED <<conf_vars, texc, thread, runner_vars, log>>

\* ------------------------------------------------------------------ runner
\* Mutant: the thread forgets its secret token once the command is built.
RunnerStartScrub(r) ==
    /\ rpc[r] = "dispatched"
    /\ rpc' = [rpc EXCEPT ![r] = "invoking"]
    /\ log' = [log EXCEPT ![r] = @ \o StartLog(variant, thread[r])]
    /\ thread' = [thread EXCEPT ![r]["secret_token"] = <<>>]
    /\ UNCHANGED <<conf_vars, tpc, texc, rexc, status, spawned, errno, stdout, exitcode>>

\* S3SyncThread.run up to the launch (s3.py:120-134).
RunnerStart(r) ==
    /\ rpc[r] = "dispatched"
    /\ rpc' = [rpc EXCEPT ![r] = "invoking"]
    /\ log' = [log EXCEPT ![r] = @ \o StartLog(variant, thread[r])]
    /\ UNCHANGED <<conf_vars, tpc, texc, thread, rexc, status, spawned, errno, stdout, exitcode>>

\* subprocess.Popen starts the tool (s3.py:137).
PopenOk(r) ==
    /\ rpc[r] = "invoking"
    /\ rpc' = [rpc EXCEPT ![r] = "executing"]
    /\ spawned' = [spawned EXCEPT ![r] = @ + 1]
    /\ UNCHANGED <<conf_vars, tpc, texc, thread, rexc, status, errno, stdout, exitcode, log>>

\* subprocess.Popen raises OSError (s3.py:137,141-146).
PopenFails(r) ==
    /\ rpc[r] = "invoking"
    /\ \E e \in LaunchErrnos :
          LET h == OnOSError(variant, e)
          IN /\ errno' = [errno EXCEPT ![r] = e]
             /\ log' = [log EXCEPT ![r] = @ \o h.logged]
             /\ rexc' = [rexc EXCEPT ![r] = h.exc]
    /\ rpc' = [rpc EXCEPT ![r] = "raised"]
    /\ status' = [status EXCEPT ![r] = "LaunchFailure"]
    /\ UNCHANGED <<conf_vars, tpc, texc, thread, spawned, stdout, exitcode>>

\* The tool ends and communicate() returns its output (s3.py:139).
Communicate(r) ==
    /\ rpc[r] = "executing"
    /\ rpc' = [rpc EXCEPT ![r] = "completed"]
    /\ stdout' \in {[stdout EXCEPT ![r] = o] : o \in ToolOutputs}
    /\ exitcode' \in {[exitcode EXCEPT ![r] = c] : c \in ExitCodes}
    /\ UNCHANGED <<conf_vars, tpc, texc, thread, rexc, status, spawned, errno, log>>

\* Mutant: a run whose output has no marker launches the tool again.
ParseAndRetry(r) ==
    /\ rpc[r] = "completed"
    /\ LET stroutput == Strip(stdout[r])
           c == Classify(variant, stroutput)
           ls == IF variant = "s3" THEN TRUE ELSE thread[r]["log_success"]
       IN /\ log' = [log EXCEPT ![r] =
                       @ \o DebugDump(variant, weewx_debug, stroutput) \o c.logged
                         \o (IF c.exc = "none" THEN FinalReport(variant, ls, c.message)
                             ELSE <<>>)]
          /\ status' = [status EXCEPT ![r] = c.status]
          /\ rexc' = [rexc EXCEPT ![r] = c.exc]
          /\ rpc' = [rpc EXCEPT ![r] = IF c.status = "ErrorsReported" THEN "invoking"
                                       ELSE IF c.exc = "none" THEN "returned" ELSE "raised"]
    /\ UNCHANGED <<conf_vars, tpc, texc, thread, spawned, errno, stdout, exitcode>>

\* Mutant: a non-zero exit status makes the run an ErrorsReported one.
ParseAndReportByExit(r) ==
    /\ rpc[r] = "completed"
    /\ LET stroutput == Strip(stdout[r])
           c == IF exitcode[r] = 0 THEN Classify(variant, stroutput)
                ELSE [status |-> "ErrorsReported", exc |-> "none",
                      logged |-> ErrorDump(variant, SplitLines(stroutput)),
                      message |-> Rec("info", ErrorsMsg(variant), <<>>)]
           ls == IF variant = "s3" THEN TRUE ELSE thread[r]["log_success"]
       IN /\ log' = [log EXCEPT ![r] =
                       @ \o DebugDump(variant, weewx_debug, stroutput) \o c.logged
                         \o (IF c.exc = "none" THEN FinalReport(variant, ls, c.message)
                             ELSE <<>>)]
          /\ status' = [status EXCEPT ![r] = c.status]
          /\ rexc' = [rexc EXCEPT ![r] = c.exc]
          /\ rpc' = [rpc EXCEPT ![r] = IF c.exc = "none" THEN "returned" ELSE "raised"]
    /\ UNCHANGED <<conf_vars, tpc, texc, thread, spawned, errno, stdout, exitcode>>

\* The rest of S3SyncThread.run (s3.py:140,146-182).
ParseAndReport(r) ==
    /\ rpc[r] = "completed"
    /\ LET stroutput == Strip(stdout[r])
           c == Classify(variant, stroutput)
           ls == IF variant = "s3" THEN TRUE ELSE thread[r]["log_success"]
       IN /\ log' = [log EXCEPT ![r] =
                       @ \o DebugDump(variant, weewx_debug, stroutput) \o c.logged
                         \o (IF c.exc = "none" THEN FinalReport(variant, ls, c.message)
                             ELSE <<>>)]
          /\ status' = [status EXCEPT ![r] = c.status]
          /\ rexc' = [rexc EXCEPT ![r] = c.exc]
          /\ rpc' = [rpc EXCEPT ![r] = IF c.exc = "none" THEN "returned" ELSE "raised"]
    /\ UNCHANGED <<conf_vars, tpc, texc, thread, spawned, errno, stdout, exitcode>>

Next ==
    \E r \in Runs :
        \/ S3Generator_run(r)
        \/ TriggerReturn(r)
        \/ RunnerStart(r)
        \/ PopenOk(r)
        \/ PopenFails(r)
        \/ Communicate(r)
        \/ ParseAndReport(r)

Spec == Init /\ [][Next]_vars

\* ------------------------------------------------------------------ the parser alone
\* The lines the tool may print, for the specification of the parsing step:
\* an empty line, a blank one, other text, an upload line, the closing line
\* with every string of at most MaxDigits digits, and the closing line
\* without "bytes", without "Done. ", after "upload:", after another
\* "Uploaded n bytes", and cut right after the marker.
DigitStrings == UNION {[1..n -> Digits] : n \in 0..MaxDigits}
Lines ==
    { <<>>, <<SP>>, <<"x">>, <<"upload:", "x">>,
      DoneMarker \o <<"x">>,
      <<"Uploaded ", "5", " bytes">>,
      <<"upload:">> \o DoneMarker \o <<"5", " bytes">>,
      <<"Uploaded ", "0", " bytes">> \o DoneMarker \o <<"5", " bytes">>,
      DoneMarker }
    \cup {DoneMarker \o ds \o <<" bytes">> : ds \in DigitStrings}

\* The text of lines, each ended by a line break.
RECURSIVE JoinLines(_)
JoinLines(ls) ==
    IF ls = <<>> THEN <<>> ELSE Head(ls) \o <<NL>> \o JoinLines(Tail(ls))

Outputs == {JoinLines(ls) : ls \in UNION {[1..n -> Lines] : n \in 0..MaxLines}}

FullSkin == [k \in SkinKeys |-> SkinValue[k]]
FullConfig == [WEEWX_ROOT |-> WeewxRootValue, StdReport |-> StdReportValue]

\* The first cycle of a complete configuration, when communicate() has just
\* returned any of the outputs.
InitParse ==
    /\ variant \in {"s3", "S3"}
    /\ skin_dict = FullSkin
    /\ config_dict = FullConfig
    /\ weewx_debug \in (IF variant = "s3" THEN {0} ELSE {0, 1})
    /\ LET res == Resolve(skin_dict, config_dict)
           t == NewThread(variant, skin_dict, res.locals)
       IN /\ thread = [r \in Runs |-> IF r = 1 THEN t ELSE NoThread]
          /\ log = [r \in Runs |->
                      IF r = 1 THEN ResolveLog(variant, skin_dict, res)
                                    \o <<LaunchRec(variant)>> \o StartLog(variant, t)
                      ELSE <<>>]
    /\ tpc = [r \in Runs |-> IF r = 1 THEN "returned" ELSE "idle"]
    /\ texc = [r \in Runs |-> "none"]
    /\ rpc = [r \in Runs |-> IF r = 1 THEN "completed" ELSE "unstarted"]
    /\ rexc = [r \in Runs |-> "none"]
    /\ status = [r \in Runs |-> "none"]
    /\ spawned = [r \in Runs |-> IF r = 1 THEN 1 ELSE 0]
    /\ errno = [r \in Runs |-> "none"]
    /\ stdout \in {[r \in Runs |-> IF r = 1 THEN o ELSE <<>>] : o \in Outputs}
    /\ exitcode = [r \in Runs |-> 0]

NextParse == ParseAndReport(1)

SpecParse == InitParse /\ [][NextParse]_vars

\* ------------------------------------------------------------------ reading the log
ConfigMissing == Resolve(skin_dict, config_dict).err # "none"
Ended(r) == rpc[r] \in {"returned", "raised"}
FinalMsgs == {SyncedMsg(variant), ExecutedMsg(variant), ErrorsMsg(variant)}
\* The positions of the records of run r at a level, and with a message.
AtLevel(r, level) == {i \in DOMAIN log[r] : log[r][i].level = level}
WithMsg(r, msgs) == {i \in DOMAIN log[r] : log[r][i].msg \in msgs}
\* The positions, in order, of the members of a set of positions.
RECURSIVE Ordered(_)
Ordered(S) ==
    IF S = {} THEN <<>>
    ELSE LET m == CHOOSE i \in S : \A j \in S : i <= j
         IN <<m>> \o Ordered(S \ {m})
\* The lines run r logged at error level, in the order it logged them.
ErrorLines(r) ==
    LET at == Ordered(AtLevel(r, "error") \cap WithMsg(r, {ErrorLineMsg}))
    IN [k \in 1..Len(at) |-> log[r][at[k]].text]

\* ------------------------------------------------------------------ claims

\* C1: when a required configuration key is absent, no S3SyncThread is
\* constructed or started and no process is spawned, in any cycle.
C1_NoDispatchOnMissingKey ==
    ConfigMissing =>
        \A r \in Runs : thread[r] = NoThread /\ rpc[r] = "unstarted" /\ spawned[r] = 0
\* A cycle whose trigger has run on a configuration without its bucket key.
C1_Witness ==
    /\ "bucket" \notin DOMAIN skin_dict
    /\ Resolve(skin_dict, config_dict).err = "bucket"
    /\ tpc[1] = "raised"

\* C2: with the configuration resolved, every invocation of S3Generator.run
\* constructs and starts one thread, never raises, and its return is enabled
\* in whatever state the runner is.
C2_OneThreadNoWait ==
    ~ConfigMissing =>
        /\ \A r \in Runs :
              /\ tpc[r] # "raised"
              /\ (tpc[r] \in {"started", "returned"}) <=> (thread[r] # NoThread)
              /\ (thread[r] # NoThread) <=> (rpc[r] # "unstarted")
              /\ tpc[r] = "started" => ENABLED TriggerReturn(r)
        /\ Cardinality({r \in Runs : rpc[r] # "unstarted"})
             = Cardinality({r \in Runs : tpc[r] \in {"started", "returned"}})
\* The trigger has returned while its runner is blocked on the process.
C2_Witness == tpc[1] = "returned" /\ rpc[1] = "executing"

\* C3: when Popen raises OSError with ENOENT, the run logs exactly one
\* error-level record, which names the missing tool, parses nothing and logs
\* no final message.
C3_MissingToolOneError ==
    \A r \in Runs :
        errno[r] = "ENOENT" =>
            /\ Cardinality(AtLevel(r, "error")) = 1
            /\ AtLevel(r, "error") = WithMsg(r, {NotInstalledMsg})
            /\ WithMsg(r, FinalMsgs) = {}
            /\ status[r] = "LaunchFailure"

\* C4: a run of S3SyncThread.run that has ended has logged exactly one outcome
\* report: its final message or its "not installed" record.
C4_ExactlyOneOutcome ==
    \A r \in Runs :
        Ended(r) => Cardinality(WithMsg(r, FinalMsgs \cup {NotInstalledMsg})) = 1

\* C7: S3SyncThread.run never ends by an exception or an exit request.
C7_NoErrorEscapes == \A r \in Runs : rpc[r] # "raised"

\* C8: no record of the log holds the access key or the secret token.
C8_CredentialsNeverLogged ==
    \A r \in Runs : \A i \in DOMAIN log[r] : \A k \in DOMAIN log[r][i].text :
        /\ <<log[r][i].text[k]>> # SkinValue["access_key"]
        /\ <<log[r][i].text[k]>> # SkinValue["secret_token"]

\* C9: with a required key absent, S3Generator.run returns normally: nothing
\* is raised on the thread that called it.
C9_MissingKeyReturnsNormally ==
    ConfigMissing => \A r \in Runs : tpc[r] # "raised" /\ texc[r] = "none"

\* C10: with a required key absent, the trigger logs the configuration failure
\* at error level.
C10_ConfigFailureAtErrorLevel ==
    ConfigMissing =>
        \A r \in Runs :
            tpc[r] # "idle" =>
                /\ WithMsg(r, {ConfigFailedMsg}) # {}
                /\ WithMsg(r, {ConfigFailedMsg}) \subseteq AtLevel(r, "error")

\* ------------------------------------------------------------------ claims on the parser
\* The lines of a text that hold the marker, and how many hold "upload:".
MarkerLines(lines) == {k \in DOMAIN lines : Contains(lines[k], DoneMarker)}
UploadCount(lines) ==
    Cardinality({k \in DOMAIN lines : Contains(lines[k], UploadMarker)})
\* The N of a line that begins "Done. Uploaded N bytes", N one digit or more:
\* the set of that N, empty for any other line.
DoneValues(line) ==
    IF /\ Len(line) >= 2
       /\ SubSeq(line, 1, 2) = DoneMarker
       /\ DigitRunEnd(line, 2) > 2
       /\ DigitRunEnd(line, 2) + 1 <= Len(line)
       /\ line[DigitRunEnd(line, 2) + 1] = " bytes"
    THEN {IntOf(SubSeq(line, 3, DigitRunEnd(line, 2)))}
    ELSE {}
\* Run r logs its final message (S3.py logs it under log_success only).
LogsFinal(r) == IF variant = "s3" THEN TRUE ELSE thread[r]["log_success"]
\* Run r has logged, at info level, a final message with these counts.
Reported(r, files, bytes) ==
    \E i \in AtLevel(r, "info") \cap WithMsg(r, FinalMsgs) :
        log[r][i].files = files /\ log[r][i].bytes = bytes

\* C5 as stated: whenever a line of the captured output is a
\* "Done. Uploaded N bytes" line, the run is a Success and its info message
\* reports the number of lines holding "upload:" and N bytes.
C5_AnyDoneLine ==
    Ended(1) =>
        LET lines == SplitLines(stdout[1])
        IN \A k \in DOMAIN lines : \A n \in DoneValues(lines[k]) :
              /\ status[1] = "Success"
              /\ LogsFinal(1) => Reported(1, UploadCount(lines), n)

\* C5 as amended: when a "Done. Uploaded N bytes" line is the only line of the
\* captured output that holds the marker, the run is a Success, raises
\* nothing, and logs one final message, at info level, with the number of
\* lines holding "upload:" and N bytes.
C5_SingleDoneLine ==
    Ended(1) =>
        LET lines == SplitLines(stdout[1])
        IN \A k \in DOMAIN lines : \A n \in DoneValues(lines[k]) :
              MarkerLines(lines) = {k} =>
                 /\ status[1] = "Success"
                 /\ rexc[1] = "none"
                 /\ LogsFinal(1) =>
                       /\ Reported(1, UploadCount(lines), n)
                       /\ Cardinality(WithMsg(1, FinalMsgs)) = 1
\* Two upload lines and "Done. Uploaded 5 bytes": 2 files and 5 bytes reported.
C5_Witness ==
    /\ Ended(1)
    /\ stdout[1] = JoinLines(<< <<"upload:", "x">>, <<"upload:", "x">>,
                                DoneMarker \o <<"5", " bytes">> >>)
    /\ Reported(1, 2, 5)

\* C6 as stated: when the captured output holds no marker, the run is
\* ErrorsReported, the lines of the output are the lines logged at error
\* level, in order, and no final message carries a count.
C6_EveryOutputLine ==
    (Ended(1) /\ ~Contains(stdout[1], DoneMarker)) =>
        /\ status[1] = "ErrorsReported"
        /\ ErrorLines(1) = SplitLines(stdout[1])
        /\ \A i \in WithMsg(1, FinalMsgs) :
              log[1][i].files = NoCount /\ log[1][i].bytes = NoCount

\* C6 as amended: the lines logged at error level are the lines of the output
\* once the white space at its two ends is stripped.
C6_EveryStrippedLine ==
    (Ended(1) /\ ~Contains(stdout[1], DoneMarker)) =>
        /\ status[1] = "ErrorsReported"
        /\ ErrorLines(1) = SplitLines(Strip(stdout[1]))
        /\ \A i \in WithMsg(1, FinalMsgs) :
              log[1][i].files = NoCount /\ log[1][i].bytes = NoCount
\* An output of three lines without the marker, dumped at error level.
C6_Witness ==
    /\ Ended(1)
    /\ ~Contains(stdout[1], DoneMarker)
    /\ Len(SplitLines(stdout[1])) = 3
    /\ Len(ErrorLines(1)) = 3

\* ------------------------------------------------------------------ claims on degraded parsing
\* The byte count of a line cannot be extracted: the pattern does not match,
\* or it matches with no digit.
NoByteCount(line) == ~ReSearch(line).matched \/ ReSearch(line).group = <<>>

\* C11: when the marker is found and no marker line yields a byte count, the
\* run ends as a Success without raising, logs no error-level record, and its
\* final message is the elapsed-only one, with no file or byte count.
C11_UnparsableBytesElapsedOnly ==
    Ended(1) =>
        LET lines == SplitLines(Strip(stdout[1]))
        IN (MarkerLines(lines) # {} /\ \A k \in MarkerLines(lines) : NoByteCount(lines[k])) =>
              /\ status[1] = "Success"
              /\ rexc[1] = "none"
              /\ AtLevel(1, "error") = {}
              /\ LogsFinal(1) =>
                    /\ Cardinality(WithMsg(1, FinalMsgs)) = 1
                    /\ \A i \in WithMsg(1, FinalMsgs) :
                          /\ log[1][i].msg = ExecutedMsg(variant)
                          /\ log[1][i].files = NoCount
                          /\ log[1][i].bytes = NoCount

\* ------------------------------------------------------------------ claims on overlapping runs
\* The thread of run q is started and its run() has not ended.
InFlight(q) == rpc[q] \in {"dispatched", "invoking", "executing", "completed"}
\* The positions of the outcome reports in a sequence of records.
ReportsIn(lg) == {i \in DOMAIN lg : lg[i].msg \in FinalMsgs \cup {NotInstalledMsg}}

\* C12: while another run is in flight, a run may launch its process, and the
\* step that ends it adds one outcome report to its own records, the one its
\* own captured output gives, and leaves the records of the other run alone.
C12_OverlapOwnReport ==
    [][\A r \in Runs : \A q \in Runs \ {r} :
          InFlight(q) =>
             /\ rpc[r] = "invoking" => ENABLED PopenOk(r)
             /\ (InFlight(r) /\ ~InFlight(r)') =>
                   /\ log'[q] = log[q]
                   /\ (rpc[r] = "completed" => LogsFinal(r)) =>
                         /\ Cardinality(ReportsIn(log'[r])) = 1
                         /\ rpc[r] = "completed" =>
                               \E i \in ReportsIn(log'[r]) :
                                  log'[r][i] = Classify(variant, Strip(stdout[r])).message
      ]_vars

\* ------------------------------------------------------------------ claims on the closing records
\* The texts of the run-end record (s3.py:182; S3.py:156).
EndMsgs == {"Sync ended at %s", "s3generator: sync ended at %s"}
Classified(r) == status[r] \in {"Success", "ErrorsReported"}

\* C13: a run that is classified and has ended has logged one final message,
\* at info level, then one run-end record, at debug level, which is its last
\* record; a run whose process has not completed has logged neither.
C13_FinalThenEnd ==
    \A r \in Runs :
        /\ (Ended(r) /\ Classified(r)) =>
              /\ Cardinality(WithMsg(r, FinalMsgs)) = 1
              /\ WithMsg(r, FinalMsgs) \subseteq AtLevel(r, "info")
              /\ Cardinality(WithMsg(r, EndMsgs)) = 1
              /\ WithMsg(r, EndMsgs) \subseteq AtLevel(r, "debug")
              /\ WithMsg(r, EndMsgs) = {Len(log[r])}
              /\ WithMsg(r, FinalMsgs) = {Len(log[r]) - 1}
        /\ rpc[r] \in {"unstarted", "dispatched", "invoking", "executing"} =>
              WithMsg(r, FinalMsgs \cup EndMsgs) = {}

\* ------------------------------------------------------------------ claims on the course of a run
\* Where run r is: the position of S3SyncThread.run, or the class of the run
\* once run() has ended.
Phase(r) == IF Ended(r) THEN status[r] ELSE rpc[r]
Course ==
    { <<"unstarted", "dispatched">>, <<"dispatched", "invoking">>,
      <<"invoking", "LaunchFailure">>, <<"invoking", "executing">>,
      <<"executing", "completed">>,
      <<"completed", "Success">>, <<"completed", "ErrorsReported">> }

\* C14: every step that moves a run moves it one edge forward along
\* dispatched, invoking, (LaunchFailure | executing, completed,
\* (Success | ErrorsReported)); the tool is launched on the edge from invoking
\* to executing only, so at most once a run.
C14_SinglePass ==
    [][\A r \in Runs :
          /\ Phase(r)' # Phase(r) => <<Phase(r), Phase(r)'>> \in Course
          /\ spawned'[r] # spawned[r] =>
                /\ spawned'[r] = spawned[r] + 1
                /\ Phase(r) = "invoking" /\ Phase(r)' = "executing"
          /\ spawned'[r] <= 1
      ]_vars
\* One run has reported errors after its one launch, the other has failed to
\* launch; both have ended.
C14_Witness ==
    /\ rpc[1] = "returned" /\ status[1] = "ErrorsReported" /\ spawned[1] = 1
    /\ Ended(2) /\ status[2] = "LaunchFailure" /\ spawned[2] = 0

\* ------------------------------------------------------------------ claims on the exit status
\* C15: two runs that have ended after their process completed with the same
\* combined output have the same class, end the same way and have logged the
\* same records, whatever the exit status of each process.
C15_ExitStatusIgnored ==
    \A r \in Runs : \A q \in Runs :
        (Ended(r) /\ Ended(q) /\ spawned[r] = 1 /\ spawned[q] = 1
           /\ stdout[r] = stdout[q]) =>
              /\ status[r] = status[q]
              /\ rexc[r] = rexc[q]
              /\ log[r] = log[q]
\* Two runs with the output of a sync, one process exited 0 and the other 1.
C15_Witness ==
    /\ Ended(1) /\ Ended(2)
    /\ stdout[1] = stdout[2] /\ Contains(stdout[1], UploadMarker)
    /\ exitcode[1] = 0 /\ exitcode[2] = 1
    /\ status[1] = "Success" /\ status[2] = "Success"

\* ------------------------------------------------------------------ claims on launch failures
\* C16: whatever the errno of the OSError Popen raised, the run has logged an
\* error-level record with that errno, is a LaunchFailure, and has not gone on
\* to the statements that read the output.
C16_AnyLaunchErrorLogged ==
    \A r \in Runs :
        errno[r] # "none" =>
            /\ \E i \in AtLevel(r, "error") : log[r][i].text = <<errno[r]>>
            /\ status[r] = "LaunchFailure"
            /\ rexc[r] # "UnboundLocalError"
            /\ WithMsg(r, FinalMsgs) = {}

\* ------------------------------------------------------------------ claims on the job
\* C17: the local_root of every thread is os.path.join(WEEWX_ROOT, html_root)
\* and then "/", html_root being the skin's HTML_ROOT when the skin has one and
\* the StdReport one otherwise; its last character is "/".
C17_LocalRoot ==
    \A r \in Runs :
        thread[r] # NoThread =>
            LET html_root == IF "HTML_ROOT" \in DOMAIN skin_dict
                             THEN skin_dict["HTML_ROOT"]
                             ELSE config_dict["StdReport"]["HTML_ROOT"]
                local_root == thread[r]["local_root"]
            IN /\ local_root = OsPathJoin(config_dict["WEEWX_ROOT"], html_root) \o <<"/">>
               /\ local_root[Len(local_root)] = "/"
\* A thread constructed when the skin and StdReport both have an HTML_ROOT:
\* the skin's (an absolute path, which join returns alone) is the one taken.
C17_Witness ==
    /\ "HTML_ROOT" \in DOMAIN skin_dict
    /\ "HTML_ROOT" \in DOMAIN config_dict["StdReport"]
    /\ thread[1] # NoThread
    /\ thread[1]["local_root"] = SkinValue["HTML_ROOT"] \o <<"/">>

\* C18: a constructed thread holds the values S3Generator.run resolved (and
\* log_success in S3.py), and no step of its run, of the trigger or of another
\* run changes any of its fields.
C18_JobFrozen ==
    [][\A r \in Runs :
          thread[r] # NoThread =>
             /\ thread[r] = NewThread(variant, skin_dict,
                                      Resolve(skin_dict, config_dict).locals)
             /\ thread'[r] = thread[r]
      ]_vars
\* The first run has ended and the second is blocked on its process: the two
\* threads still hold the resolved values.
C18_Witness ==
    /\ Ended(1) /\ rpc[2] = "executing"
    /\ thread[1] # NoThread /\ thread[2] = thread[1]
    /\ thread[1]["secret_token"] = SkinValue["secret_token"]

\* ------------------------------------------------------------------ claims on log_success
\* The records of run r at error level, in the order it logged them.
ErrorRecs(r) ==
    LET at == Ordered(AtLevel(r, "error"))
    IN [k \in 1..Len(at) |-> log[r][at[k]]]
\* The error-level records S3.py owes run r, from what log_success has no part
\* in: the key that is missing, the errno of the launch, the captured output.
ExpectedErrors(r) ==
    (IF tpc[r] # "idle" /\ ConfigMissing
     THEN <<Rec("error", ConfigFailedMsg, <<Resolve(skin_dict, config_dict).err>>)>>
     ELSE <<>>)
    \o (IF errno[r] = "ENOENT"
        THEN <<Rec("error", NotInstalledMsg, <<"ENOENT">>)>> ELSE <<>>)
    \o (IF Ended(r) /\ status[r] = "ErrorsReported"
        THEN <<Rec("error", "S3cmd reported errors", <<>>)>>
             \o [i \in 1..Len(SplitLines(Strip(stdout[r]))) |->
                   Rec("error", ErrorLineMsg, SplitLines(Strip(stdout[r]))[i])]
        ELSE <<>>)

\* C19: in S3.py, with log_success false no cycle logs any info-level record,
\* and with log_success true or false the error-level records of a cycle are
\* the same: those the missing key, the missing tool and the output give.
C19_LogSuccessGatesInfoOnly ==
    variant = "S3" =>
        \A r \in Runs :
            /\ ~LogSuccess(skin_dict) => AtLevel(r, "info") = {}
            /\ ErrorRecs(r) = ExpectedErrors(r)
\* S3.py with log_success false: a run has returned after an output of errors,
\* with its error dump logged and nothing at info level.
C19_Witness ==
    /\ variant = "S3" /\ ~LogSuccess(skin_dict)
    /\ rpc[1] = "returned" /\ status[1] = "ErrorsReported"
    /\ Len(ErrorRecs(1)) = 3
    /\ AtLevel(1, "info") = {}
    /\ rpc[2] = "returned" /\ status[2] = "Success"

\* ------------------------------------------------------------------ claims on several marker lines
\* What the last line that holds the marker gives for the byte count.
LastMarkerBytes(lines) ==
    LET k == CHOOSE j \in MarkerLines(lines) : \A i \in MarkerLines(lines) : i <= j
        m == ReSearch(lines[k])
    IN IF m.matched THEN IntOf(m.group) ELSE UnknownBytes
\* Every final message of run 1 is the one with counts: the byte count of the
\* last marker line of the text, the number of its lines that hold "upload:".
ReportsLastMarker(text) ==
    LET lines == SplitLines(text)
    IN /\ MarkerLines(lines) # {}
       /\ \A i \in WithMsg(1, FinalMsgs) :
             /\ log[1][i].msg = SyncedMsg(variant)
             /\ log[1][i].bytes = LastMarkerBytes(lines)
             /\ log[1][i].files = UploadCount(lines)

\* C20 as stated: when the captured output holds the marker, one of its lines
\* does, a final message is always the one with counts, its byte count is that
\* of the last marker line and its file count the number of "upload:" lines.
C20_CapturedOutput ==
    (Ended(1) /\ Contains(stdout[1], DoneMarker)) => ReportsLastMarker(stdout[1])

\* C20 as amended: the same of the captured output once the white space at
\* its two ends is stripped, which is the text the run searches and splits.
C20_StrippedOutput ==
    (Ended(1) /\ Contains(Strip(stdout[1]), DoneMarker)) =>
        ReportsLastMarker(Strip(stdout[1]))
\* Marker lines of 5 and of 0 bytes with an upload line between them: one file
\* and 0 bytes reported.
C20_Witness ==
    /\ Ended(1)
    /\ stdout[1] = JoinLines(<< DoneMarker \o <<"5", " bytes">>, <<"upload:", "x">>,
                                DoneMarker \o <<"0", " bytes">> >>)
    /\ Reported(1, 1, 0)

====
